---------------------------- MODULE Spec2Model ----------------------------
(***************************************************************************)
(* Model of test-traces.py: the two simulated workflows                    *)
(* (simulate_user_request, simulate_order_process) and the generation loop *)
(* of main().                                                              *)
(*                                                                         *)
(* Time is counted in ticks of 5 ms, the greatest common divisor of every  *)
(* delay bound in the source (0.005 s .. 0.5 s).  The clock advances only  *)
(* in time.sleep(); random.uniform(a, b) is a choice between a and b.      *)
(* random.random() is an integer percentage 0..99 drawn from RandomDraws,  *)
(* which holds both neighbours of every threshold the source compares to.  *)
(*                                                                         *)
(* A workflow is the sequence of its statements.  `todo' is the rest of    *)
(* the running function body; `with' enters a span scope, `end' leaves the *)
(* innermost one, `return' leaves every enclosing one.                     *)
(***************************************************************************)
EXTENDS Integers, Sequences, FiniteSets, TLC

VARIABLES pc, clock, start_time, trace_count, wf, todo, took,
          spans, stack, sink, lateWrite, progress, total,
          idle, calls, rootsEnded

vars == <<pc, clock, start_time, trace_count, wf, todo, took,
          spans, stack, sink, lateWrite, progress, total,
          idle, calls, rootsEnded>>

----------------------------------------------------------------------------
(* Bounds of the model *)

\* The time budget of the loop in ticks (the source runs 30 s = 6000 ticks).
Budget == 150

\* The reading of time.time() when main() starts.
Epoch == 3

----------------------------------------------------------------------------
(* Random sources *)

RandomDraws == {0, 4, 5, 9, 10, 69, 70, 99}

UserShare == 70
ApiErrorRate == 10
PaymentFailureRate == 5
ProgressEvery == 5

AuthDelay == {2, 10}
DbDelay == {4, 20}
ApiDelay == {10, 40}
ResponseDelay == {1, 4}
ValidateDelay == {2, 6}
InventoryDelay == {6, 16}
PaymentDelay == {20, 60}
UpdateDelay == {4, 12}
NotifyDelay == {2, 8}
JitterDelay == {20, 100}

OrderIds == {1000, 9999}
ItemCounts == {1, 5}
Amounts == {10, 500}
ResponseSizes == {500, 2000}

----------------------------------------------------------------------------
(* Statements *)

With(name) == [op |-> "with", name |-> name]
Set(span, key, vals) == [op |-> "set", span |-> span, key |-> key, vals |-> vals]
SleepFor(d) == [op |-> "sleep", d |-> d]
If(below, then, else) == [op |-> "if", below |-> below, then |-> then, else |-> else]
End == [op |-> "end"]
Return == [op |-> "return"]

----------------------------------------------------------------------------
(* simulate_user_request *)

\* Variant: the failure also marks the root as errored.
ApiFailureMarksRoot ==
    << Set("external_api_call", "error", {TRUE}),
       Set("external_api_call", "http.status_code", {500}),
       Set("user_request", "http.status_code", {500}),
       Set("user_request", "error", {TRUE}) >>

\* Variant: the root's status code is written through the wrong handle.
ApiFailureWrongHandle ==
    << Set("external_api_call", "error", {TRUE}),
       Set("external_api_call", "http.status_code", {500}),
       Set("database_query", "http.status_code", {500}) >>

\* Variant: the failure is recorded on the child only.
ApiFailureChildOnly ==
    << Set("external_api_call", "error", {TRUE}),
       Set("external_api_call", "http.status_code", {500}) >>

ApiFailure ==
    << Set("external_api_call", "error", {TRUE}),
       Set("external_api_call", "http.status_code", {500}),
       Set("user_request", "http.status_code", {500}) >>

\* Variant: the success branch records nothing on the child.
ApiSuccessSilent == << >>

ApiSuccess ==
    << Set("external_api_call", "http.status_code", {200}) >>

UserRequestScript ==
    << With("user_request"),
       Set("user_request", "http.method", {"GET"}),
       Set("user_request", "http.url", {"/api/users/123"}),
       Set("user_request", "http.status_code", {200}),
       Set("user_request", "user.id", {"123"}),
       With("authenticate_user"),
       Set("authenticate_user", "auth.method", {"jwt"}),
       SleepFor(AuthDelay),
       Set("authenticate_user", "auth.success", {TRUE}),
       End,
       With("database_query"),
       Set("database_query", "db.system", {"postgresql"}),
       Set("database_query", "db.operation", {"SELECT"}),
       Set("database_query", "db.table", {"users"}),
       SleepFor(DbDelay),
       Set("database_query", "db.rows_affected", {1}),
       End,
       With("external_api_call"),
       Set("external_api_call", "http.method", {"GET"}),
       Set("external_api_call", "http.url", {"https://external.example.com/profile"}),
       SleepFor(ApiDelay),
       If(ApiErrorRate, ApiFailure, ApiSuccess),
       End,
       With("process_response"),
       Set("process_response", "response.size", ResponseSizes),
       SleepFor(ResponseDelay),
       End,
       End >>

----------------------------------------------------------------------------
(* simulate_order_process *)

\* Variant: the failure is reported as 400.
PaymentFailureBadRequest ==
    << Set("process_payment", "payment.status", {"failed"}),
       Set("process_payment", "error", {TRUE}),
       Set("order_process", "http.status_code", {400}),
       Return >>

\* Variant: the failure branch lacks its return statement.
PaymentFailureNoReturn ==
    << Set("process_payment", "payment.status", {"failed"}),
       Set("process_payment", "error", {TRUE}),
       Set("order_process", "http.status_code", {402}) >>

PaymentFailure ==
    << Set("process_payment", "payment.status", {"failed"}),
       Set("process_payment", "error", {TRUE}),
       Set("order_process", "http.status_code", {402}),
       Return >>

PaymentSuccess ==
    << Set("process_payment", "payment.status", {"success"}) >>

\* Variant: the success path reports 200 and leaves order.status unset.
OrderCompletionPlainOk ==
    << Set("order_process", "http.status_code", {200}) >>

OrderCompletion ==
    << Set("order_process", "http.status_code", {201}),
       Set("order_process", "order.status", {"completed"}) >>

OrderProcessScript ==
    << With("order_process"),
       Set("order_process", "order.id", OrderIds),
       Set("order_process", "http.method", {"POST"}),
       Set("order_process", "http.url", {"/api/orders"}),
       With("validate_order"),
       Set("validate_order", "order.items_count", ItemCounts),
       SleepFor(ValidateDelay),
       End,
       With("check_inventory"),
       Set("check_inventory", "inventory.check_type", {"real_time"}),
       SleepFor(InventoryDelay),
       Set("check_inventory", "inventory.available", {TRUE}),
       End,
       With("process_payment"),
       Set("process_payment", "payment.method", {"credit_card"}),
       Set("process_payment", "payment.amount", Amounts),
       SleepFor(PaymentDelay),
       If(PaymentFailureRate, PaymentFailure, PaymentSuccess),
       End,
       With("update_order_database"),
       Set("update_order_database", "db.system", {"postgresql"}),
       Set("update_order_database", "db.operation", {"INSERT"}),
       Set("update_order_database", "db.table", {"orders"}),
       SleepFor(UpdateDelay),
       End,
       With("send_notification"),
       Set("send_notification", "notification.type", {"email"}),
       Set("send_notification", "notification.recipient", {"user@example.com"}),
       SleepFor(NotifyDelay),
       End >>
    \o OrderCompletion
    \o << End >>

Script(w) == IF w = "user" THEN UserRequestScript ELSE OrderProcessScript

----------------------------------------------------------------------------
(* Spans: tracer.start_as_current_span, Span.set_attribute, Span.end *)

NoAttributes == [k \in {} |-> 0]

\* Variant: writing a key that is already present clears it.
PutOrClear(attrs, key, value) ==
    IF key \in DOMAIN attrs
    THEN [k \in DOMAIN attrs \ {key} |-> attrs[k]]
    ELSE [k \in DOMAIN attrs \cup {key} |-> IF k = key THEN value ELSE attrs[k]]

\* Attributes are keyed: a write inserts the key or overwrites its value.
Put(attrs, key, value) ==
    [k \in DOMAIN attrs \cup {key} |-> IF k = key THEN value ELSE attrs[k]]

\* The span the context holds as current: the innermost open `with'.
Current(stk) == IF stk = <<>> THEN 0 ELSE stk[Len(stk)]

\* Variant: the span is started outside the current context.
StartSpanDetached(S, name, parent, now) ==
    Append(S, [name |-> name, parent |-> 0, attrs |-> NoAttributes,
               start |-> now, end |-> -1, open |-> TRUE])

\* Variant: the span is started under the span begun last.
StartSpanChained(S, name, parent, now) ==
    Append(S, [name |-> name, parent |-> Len(S), attrs |-> NoAttributes,
               start |-> now, end |-> -1, open |-> TRUE])

\* start_as_current_span(name): a span whose parent is the current span.
StartSpan(S, name, parent, now) ==
    Append(S, [name |-> name, parent |-> parent, attrs |-> NoAttributes,
               start |-> now, end |-> -1, open |-> TRUE])

\* The variable a `with ... as v' bound: names are unique inside one trace.
Handle(S, name) == CHOOSE i \in DOMAIN S : S[i].name = name

\* Span.set_attribute: recorded while the span is open, dropped afterwards.
SetAttribute(S, i, key, value) ==
    IF S[i].open THEN [S EXCEPT ![i].attrs = Put(@, key, value)] ELSE S

\* Variant: the end timestamp repeats the start timestamp.
EndSpanAtStart(S, i, now) ==
    IF S[i].open THEN [S EXCEPT ![i].end = S[i].start, ![i].open = FALSE] ELSE S

\* Span.end() at the exit of the `with' block.
EndSpan(S, i, now) ==
    IF S[i].open THEN [S EXCEPT ![i].end = now, ![i].open = FALSE] ELSE S

\* Variant: the finished span is put at the head of the queue.
OnEndAtHead(q, i, span) == <<[id |-> i, span |-> span]>> \o q

\* The span processor's on_end: the finished span is queued for export.
OnEnd(q, i, span) == Append(q, [id |-> i, span |-> span])

\* Variant: only the innermost block is left.
ReturnUnwindInnermost(stk) == <<End>>

\* `return' inside nested `with' blocks leaves each of them, innermost first.
ReturnUnwind(stk) == [i \in 1..Len(stk) |-> End]

----------------------------------------------------------------------------
(* main *)

Elapsed == clock - start_time

\* Variant: the budget itself still counts as running.
RunningInclusive(elapsed) == elapsed <= Budget

\* Variant: the loop also ends after an iteration that failed.
RunningUntilFailure(elapsed) == elapsed < Budget /\ ~took

\* Variant: the loop has no exit condition.
RunningForever(elapsed) == TRUE

\* while time.time() - start_time < 30
Running(elapsed) == elapsed < Budget

Max(S) == CHOOSE x \in S : \A y \in S : y <= x
Min(S) == CHOOSE x \in S : \A y \in S : x <= y

\* The longest and the shortest time a function body can sleep in total.
RECURSIVE LongestRun(_)
LongestRun(code) ==
    IF code = <<>> THEN 0
    ELSE LET s == Head(code)
             rest == Tail(code)
         IN  CASE s.op = "sleep" -> Max(s.d) + LongestRun(rest)
               [] s.op = "return" -> 0
               [] s.op = "if" -> Max({LongestRun(s.then \o rest), LongestRun(s.else \o rest)})
               [] OTHER -> LongestRun(rest)

RECURSIVE ShortestRun(_)
ShortestRun(code) ==
    IF code = <<>> THEN 0
    ELSE LET s == Head(code)
             rest == Tail(code)
         IN  CASE s.op = "sleep" -> Min(s.d) + ShortestRun(rest)
               [] s.op = "return" -> 0
               [] s.op = "if" -> Min({ShortestRun(s.then \o rest), ShortestRun(s.else \o rest)})
               [] OTHER -> ShortestRun(rest)

MaxWorkflow == Max({LongestRun(UserRequestScript), LongestRun(OrderProcessScript)})
MaxJitter == Max(JitterDelay)
MinWorkflow == Min({ShortestRun(UserRequestScript), ShortestRun(OrderProcessScript)})
MinJitter == Min(JitterDelay)

Init ==
    /\ pc = "while"
    /\ clock = Epoch
    /\ start_time = Epoch
    /\ trace_count = 0
    /\ wf = "none"
    /\ todo = <<>>
    /\ took = FALSE
    /\ spans = <<>>
    /\ stack = <<>>
    /\ sink = <<>>
    /\ lateWrite = FALSE
    /\ progress = <<>>
    /\ total = -1
    /\ idle = 0
    /\ calls = 0
    /\ rootsEnded = 0

\* The loop test.
While ==
    /\ pc = "while"
    /\ pc' = IF Running(Elapsed) THEN "choose" ELSE "report"
    /\ UNCHANGED <<idle, calls, rootsEnded, clock, start_time, trace_count, wf, todo, took,
                   spans, stack, sink, lateWrite, progress, total>>

\* if random.random() < 0.7: call one of the workflows.  `calls' counts the
\* calls made, `idle' the ticks main has slept since the last call returned,
\* `rootsEnded' the root spans ended since main began.
Choose ==
    /\ pc = "choose"
    /\ \E r \in RandomDraws :
          wf' = IF r < UserShare THEN "user" ELSE "order"
    /\ todo' = Script(wf')
    /\ took' = FALSE
    /\ calls' = calls + 1
    /\ idle' = 0
    /\ pc' = "run"
    /\ UNCHANGED <<rootsEnded, clock, start_time, trace_count,
                   spans, stack, sink, lateWrite, progress, total>>

\* Variant: past the budget the workflow gives up at its next statement.
StepUnlessOverBudget == IF Elapsed >= Budget THEN Return ELSE todo[1]

\* The statement the workflow executes next.
Step == todo[1]

Enter ==
    /\ pc = "run" /\ todo # <<>> /\ Step.op = "with"
    /\ spans' = StartSpan(spans, Step.name, Current(stack), clock)
    /\ stack' = Append(stack, Len(spans) + 1)
    /\ todo' = Tail(todo)
    /\ UNCHANGED <<idle, calls, rootsEnded, pc, clock, start_time, trace_count, wf, took,
                   sink, lateWrite, progress, total>>

SetAttr ==
    /\ pc = "run" /\ todo # <<>> /\ Step.op = "set"
    /\ LET h == Handle(spans, Step.span) IN
          /\ \E v \in Step.vals : spans' = SetAttribute(spans, h, Step.key, v)
          /\ lateWrite' = (lateWrite \/ ~spans[h].open)
    /\ todo' = Tail(todo)
    /\ UNCHANGED <<idle, calls, rootsEnded, pc, clock, start_time, trace_count, wf, took,
                   stack, sink, progress, total>>

Sleep ==
    /\ pc = "run" /\ todo # <<>> /\ Step.op = "sleep"
    /\ \E d \in Step.d : clock' = clock + d
    /\ todo' = Tail(todo)
    /\ UNCHANGED <<idle, calls, rootsEnded, pc, start_time, trace_count, wf, took,
                   spans, stack, sink, lateWrite, progress, total>>

Branch ==
    /\ pc = "run" /\ todo # <<>> /\ Step.op = "if"
    /\ \E r \in RandomDraws :
          /\ took' = (r < Step.below)
          /\ todo' = (IF r < Step.below THEN Step.then ELSE Step.else) \o Tail(todo)
    /\ UNCHANGED <<idle, calls, rootsEnded, pc, clock, start_time, trace_count, wf,
                   spans, stack, sink, lateWrite, progress, total>>

Exit ==
    /\ pc = "run" /\ todo # <<>> /\ Step.op = "end"
    /\ LET i == Current(stack) IN
          /\ spans' = EndSpan(spans, i, clock)
          /\ sink' = IF spans[i].open THEN OnEnd(sink, i, spans'[i]) ELSE sink
          /\ rootsEnded' = IF spans[i].open /\ spans[i].parent = 0
                            THEN rootsEnded + 1 ELSE rootsEnded
    /\ stack' = SubSeq(stack, 1, Len(stack) - 1)
    /\ todo' = Tail(todo)
    /\ UNCHANGED <<idle, calls, pc, clock, start_time, trace_count, wf, took,
                   lateWrite, progress, total>>

ReturnEarly ==
    /\ pc = "run" /\ todo # <<>> /\ Step.op = "return"
    /\ todo' = ReturnUnwind(stack)
    /\ UNCHANGED <<idle, calls, rootsEnded, pc, clock, start_time, trace_count, wf, took,
                   spans, stack, sink, lateWrite, progress, total>>

\* The workflow function has returned, and its spans with it (they are its
\* locals; the sink keeps the reports of the call in progress):
\* trace_count += 1.
Count ==
    /\ pc = "run" /\ todo = <<>>
    /\ trace_count' = trace_count + 1
    /\ spans' = <<>>
    /\ stack' = <<>>
    /\ sink' = <<>>
    /\ pc' = "jitter"
    /\ UNCHANGED <<idle, calls, rootsEnded, clock, start_time, wf, todo, took, lateWrite, progress, total>>

\* time.sleep(random.uniform(0.1, 0.5))
Jitter ==
    /\ pc = "jitter"
    /\ \E d \in JitterDelay : clock' = clock + d /\ idle' = idle + d
    /\ pc' = "progress"
    /\ UNCHANGED <<calls, rootsEnded, start_time, trace_count, wf, todo, took,
                   spans, stack, sink, lateWrite, progress, total>>

\* Variant: the test looks at the counter as it was before the increment.
DueBeforeIncrement(n) == (n - 1) % ProgressEvery = 0

\* trace_count % 5 == 0
Due(n) == n % ProgressEvery = 0

\* if trace_count % 5 == 0: print(...)
Progress ==
    /\ pc = "progress"
    /\ progress' = IF Due(trace_count)
                   THEN Append(progress, trace_count) ELSE progress
    /\ pc' = "while"
    /\ UNCHANGED <<idle, calls, rootsEnded, clock, start_time, trace_count, wf, todo, took,
                   spans, stack, sink, lateWrite, total>>

\* print(f"Completed! Generated {trace_count} sample traces")
Report ==
    /\ pc = "report"
    /\ total' = trace_count
    /\ pc' = "exit"
    /\ UNCHANGED <<idle, calls, rootsEnded, clock, start_time, trace_count, wf, todo, took,
                   spans, stack, sink, lateWrite, progress>>

Next ==
    \/ While \/ Choose
    \/ Enter \/ SetAttr \/ Sleep \/ Branch \/ Exit \/ ReturnEarly
    \/ Count \/ Jitter \/ Progress \/ Report

Spec == Init /\ [][Next]_vars

\* One thread runs the program: whatever statement is next is executed.
FairSpec == Spec /\ WF_vars(Next)

TypeOK ==
    /\ pc \in {"while", "choose", "run", "jitter", "progress", "report", "exit"}
    /\ clock \in Nat /\ clock >= start_time
    /\ trace_count \in Nat
    /\ wf \in {"none", "user", "order"}
    /\ took \in BOOLEAN
    /\ lateWrite \in BOOLEAN

----------------------------------------------------------------------------
(* Reading the span tree *)

Root == 1
RootEnded == spans # <<>> /\ ~spans[Root].open
Ids == DOMAIN spans

\* The names of the root's children, in the order they were begun.
ChildIds == SelectSeq([i \in 1..Len(spans) |-> i], LAMBDA i : spans[i].parent = Root)
Children == [k \in 1..Len(ChildIds) |-> spans[ChildIds[k]].name]

Begun(name) == \E i \in Ids : spans[i].name = name
Has(i, key) == key \in DOMAIN spans[i].attrs
Attr(i, key) == spans[i].attrs[key]

\* How often span i has been reported.
Reports(i) == Cardinality({j \in DOMAIN sink : sink[j].id = i})

\* The workflow function has just returned to main.
Returned == pc = "run" /\ todo = <<>>
Stopped == pc \in {"report", "exit"}

----------------------------------------------------------------------------
(* Order Process and User Request outcomes *)

\* C1: whenever simulate_order_process took the payment failure branch, no
\* update_order_database or send_notification span is begun, and once the
\* order_process root has ended it has exactly the children validate_order,
\* check_inventory, process_payment (in that order) and http.status_code 402.
PaymentFailureShortCircuits ==
    (wf = "order" /\ took) =>
        /\ ~Begun("update_order_database")
        /\ ~Begun("send_notification")
        /\ RootEnded =>
              /\ spans[Root].name = "order_process"
              /\ Children = <<"validate_order", "check_inventory", "process_payment">>
              /\ Has(Root, "http.status_code")
              /\ Attr(Root, "http.status_code") = 402

PaymentFailedAndRootEnded ==
    wf = "order" /\ took /\ RootEnded /\ Len(spans) = 4

\* C2: whenever simulate_user_request took the external-API failure branch,
\* once the user_request root has ended both the external_api_call child and
\* the root carry http.status_code 500 and the root has exactly the children
\* authenticate_user, database_query, external_api_call, process_response.
ApiFailureDoesNotShortCircuit ==
    (wf = "user" /\ took /\ RootEnded) =>
        /\ spans[Root].name = "user_request"
        /\ Children = <<"authenticate_user", "database_query",
                        "external_api_call", "process_response">>
        /\ Has(Root, "http.status_code")
        /\ Attr(Root, "http.status_code") = 500
        /\ LET api == Handle(spans, "external_api_call") IN
              /\ Has(api, "http.status_code")
              /\ Attr(api, "http.status_code") = 500

ApiFailedAndRootEnded ==
    wf = "user" /\ took /\ RootEnded /\ Begun("process_response")

\* C3: whenever simulate_order_process did not take the payment failure
\* branch, once the order_process root has ended it has exactly the children
\* validate_order, check_inventory, process_payment, update_order_database,
\* send_notification, http.status_code 201 and order.status "completed".
PaymentSuccessCompletesOrder ==
    (wf = "order" /\ ~took /\ RootEnded) =>
        /\ spans[Root].name = "order_process"
        /\ Children = <<"validate_order", "check_inventory", "process_payment",
                        "update_order_database", "send_notification">>
        /\ Has(Root, "http.status_code")
        /\ Attr(Root, "http.status_code") = 201
        /\ Has(Root, "order.status")
        /\ Attr(Root, "order.status") = "completed"

PaymentSucceededAndRootEnded ==
    wf = "order" /\ ~took /\ RootEnded /\ Begun("send_notification")

----------------------------------------------------------------------------
(* Span lifecycle *)

EndedOnce(i) == ~spans[i].open /\ spans[i].end >= spans[i].start /\ Reports(i) = 1

\* Once the workflow function has returned, by falling off its end or by the
\* early return, every span it began has been ended and reported once.
AllEndedOnReturn ==
    Returned => \A i \in Ids : EndedOnce(i)

\* C4: every span that is begun is eventually ended, on every exit path of
\* both workflows; no span is ever reported twice; and when the workflow
\* function has returned (also by the early return of the payment failure)
\* every span it began, process_payment and the root included, has been
\* ended exactly once.
EverySpanIsEnded ==
    /\ [](AllEndedOnReturn /\ \A i \in Ids : Reports(i) <= 1)
    /\ (\E i \in Ids : spans[i].open) ~> (Returned /\ \A i \in Ids : EndedOnce(i))

ShortCircuitClosedBoth ==
    /\ wf = "order" /\ took /\ Returned
    /\ EndedOnce(Root)
    /\ EndedOnce(Handle(spans, "process_payment"))

\* C5: every ended span, and no other, is in the sink exactly once; the sink
\* is in the order of the end timestamps; children are reported in the order
\* they were begun; and the root is reported last, after every span of its
\* tree.
SinkOrder ==
    /\ \A i \in Ids : Reports(i) = (IF spans[i].open THEN 0 ELSE 1)
    /\ \A j \in DOMAIN sink : sink[j].id \in Ids
    /\ \A j, k \in DOMAIN sink :
          j < k =>
             /\ sink[j].span.end <= sink[k].span.end
             /\ sink[j].id # Root
             /\ (sink[k].id # Root => sink[j].id < sink[k].id)
    /\ RootEnded =>
          /\ Len(sink) = Len(spans)
          /\ sink[Len(sink)].id = Root

RootReportedAfterChildren ==
    RootEnded /\ Len(sink) >= 4 /\ sink[Len(sink)].id = Root

\* C6: every ended span has end >= start; every child starts no earlier than
\* its parent; and once the parent has ended, the child has ended no later
\* than it (so the bounds hold for every completed tree).
TimeContainment ==
    \A i \in Ids :
        /\ ~spans[i].open => spans[i].end >= spans[i].start
        /\ spans[i].parent # 0 =>
              LET p == spans[i].parent IN
                 /\ spans[i].start >= spans[p].start
                 /\ ~spans[p].open =>
                       /\ ~spans[i].open
                       /\ spans[i].end <= spans[p].end

ShortCircuitedTreeCompleted ==
    /\ wf = "order" /\ took /\ RootEnded
    /\ \A i \in Ids \ {Root} :
          /\ spans[i].end > spans[i].start
          /\ spans[i].end <= spans[Root].end

\* C7: no attribute write has targeted an ended span, and every span in the
\* sink is still exactly as it was when it was reported.
NoWriteAfterEnd ==
    /\ ~lateWrite
    /\ \A j \in DOMAIN sink : sink[j].span = spans[sink[j].id]

RootWrittenByFailingChild ==
    /\ took /\ Len(sink) >= 2
    /\ spans[Root].open
    /\ Has(Root, "http.status_code")
    /\ Attr(Root, "http.status_code") \in {500, 402}

----------------------------------------------------------------------------
(* The generation loop *)

\* C8: when the loop has stopped, the time elapsed since its start is at
\* least the budget and less than the budget plus the longest workflow plus
\* the longest jitter; and a workflow is only ever about to be chosen while
\* the elapsed time is below the budget.
BoundedOverrun ==
    /\ Stopped => /\ Elapsed >= Budget
                  /\ Elapsed < Budget + MaxWorkflow + MaxJitter
    /\ pc = "choose" => Elapsed < Budget

StoppedAfterLongLastIteration ==
    pc = "report" /\ Elapsed > Budget + MaxJitter

\* C9: after a workflow that took its failure branch (the early return
\* included) the loop increments the counter, sleeps the jitter, and comes
\* back to the budget test, which alone decides; and the loop never stops
\* but by the budget test finding the elapsed time at or above the budget.
FailuresNeverAbortLoop ==
    [][ /\ (Stopped' /\ ~Stopped) => (pc = "while" /\ Elapsed >= Budget)
        /\ (Returned /\ took) => (pc' = "jitter" /\ trace_count' = trace_count + 1)
        /\ (pc = "jitter" /\ took) => (pc' = "progress" /\ clock' >= clock + MinJitter)
        /\ (pc = "progress" /\ took) => pc' = "while"
        /\ (pc = "while" /\ took) =>
              pc' = (IF Elapsed >= Budget THEN "report" ELSE "choose")
      ]_vars

LoopGoesOnAfterPaymentFailure ==
    pc = "choose" /\ wf = "order" /\ took /\ trace_count >= 1

\* C10: the loop reaches its end, and does so before the elapsed time passes
\* the budget plus one longest iteration; every completed iteration has
\* advanced the clock by at least the shortest workflow plus the shortest
\* jitter, both positive; and once the loop has stopped no workflow is
\* started, no span is begun and the counter stays.
Termination ==
    /\ <>(pc = "exit")
    /\ [](Elapsed < Budget + MaxWorkflow + MaxJitter)
    /\ [](MinWorkflow > 0 /\ MinJitter > 0)
    /\ [](pc \in {"while", "choose"} => Elapsed >= trace_count * (MinWorkflow + MinJitter))
    /\ [][Stopped => /\ Stopped'
                     /\ UNCHANGED <<wf, todo, spans, stack, sink, trace_count>>]_vars

StoppedAndReported ==
    pc = "exit" /\ total = trace_count /\ trace_count >= 1

----------------------------------------------------------------------------
(* Sequential workflows *)

OpenRoots == {i \in Ids : spans[i].open /\ spans[i].parent = 0}
BeginsRoot == \E i \in DOMAIN spans' \ DOMAIN spans : spans'[i].parent = 0

\* C11: at most one root span is open at any moment; a workflow is called
\* only when every earlier call has returned and been counted and, unless it
\* is the first, main has slept at least the shortest jitter since; a root is
\* begun only as the first span of such a call, with every earlier root
\* ended; and a call returns only with all of its spans ended.
WorkflowsNeverOverlap ==
    /\ [](Cardinality(OpenRoots) <= 1)
    /\ [][ /\ (pc = "choose" /\ pc' = "run") =>
                 /\ spans = <<>> /\ stack = <<>>
                 /\ calls = trace_count
                 /\ calls > 0 => idle >= MinJitter
           /\ BeginsRoot =>
                 /\ pc = "run" /\ spans = <<>> /\ stack = <<>>
                 /\ rootsEnded = calls - 1
           /\ (pc = "run" /\ pc' = "jitter") => \A i \in Ids : ~spans[i].open
         ]_vars

SecondRootOpen ==
    /\ calls >= 2 /\ rootsEnded = calls - 1
    /\ spans # <<>> /\ spans[Root].open /\ Len(spans) >= 2

\* C12: outside a workflow call the counter equals the number of calls made
\* and the number of root spans ended; a call that has returned, the
\* short-circuited one included, has ended exactly one root more than have
\* been counted; and the total reported at the end is that counter.
TotalCountsEndedRoots ==
    /\ pc # "run" => (trace_count = calls /\ trace_count = rootsEnded)
    /\ pc = "run" => calls = trace_count + 1
    /\ Returned => rootsEnded = trace_count + 1
    /\ pc = "exit" => (total = trace_count /\ total = calls /\ total = rootsEnded)

TotalIncludesShortCircuitedOrder ==
    /\ pc = "exit" /\ wf = "order" /\ took
    /\ total >= 2 /\ total = rootsEnded

----------------------------------------------------------------------------
(* Span status *)

\* The source marks a span as errored by set_attribute("error", True); a
\* span without that mark is OK.
StatusIn(S, i) ==
    IF "error" \in DOMAIN S[i].attrs /\ S[i].attrs["error"] = TRUE
    THEN "ERROR" ELSE "OK"
Status(i) == StatusIn(spans, i)

\* Marking span i as errored, as the failure branches do.
MarkError(S, i) == SetAttribute(S, i, "error", TRUE)

FailingOperation == IF wf = "user" THEN "external_api_call" ELSE "process_payment"

\* C13: a span is OK when it is begun; it becomes ERROR only in a step of its
\* own operation (it is the current, open span) after the failure branch was
\* taken; only the failing child of the workflow is ever ERROR, and the root
\* is never ERROR, whatever its children did.
StatusIsOwnOutcome ==
    /\ [](\A i \in Ids :
             Status(i) = "ERROR" =>
                 (took /\ i # Root /\ spans[i].name = FailingOperation))
    /\ [][\A i \in DOMAIN spans' :
             /\ i \notin DOMAIN spans => StatusIn(spans', i) = "OK"
             /\ (i \in DOMAIN spans /\ Status(i) = "OK"
                    /\ StatusIn(spans', i) = "ERROR") =>
                   (took /\ i = Current(stack) /\ spans[i].open)
         ]_vars

RootOkAfterChildError ==
    /\ took /\ RootEnded
    /\ Status(Root) = "OK"
    /\ Attr(Root, "http.status_code") \in {500, 402}
    /\ \E i \in Ids : Status(i) = "ERROR" /\ spans[i].parent = Root

----------------------------------------------------------------------------
(* Progress notifications *)

\* The iterations whose notification step is behind.
Notifiable == IF pc \in {"jitter", "progress"} THEN trace_count - 1 ELSE trace_count

\* C15: the notifications emitted so far are exactly 5, 10, ... up to the
\* last iteration whose notification step is behind; a notification is
\* emitted in the notification step of an iteration whose counter is a
\* positive multiple of 5, and carries it; the counter never decreases and
\* changes only by the single increment that follows a returned workflow.
ProgressEveryFifthWorkflow ==
    /\ [](progress = [k \in 1..(Notifiable \div 5) |-> 5 * k])
    /\ [][ /\ trace_count' >= trace_count
           /\ trace_count' # trace_count => (Returned /\ trace_count' = trace_count + 1)
           /\ (Returned /\ pc' # "run") => trace_count' = trace_count + 1
           /\ progress' # progress =>
                 /\ pc = "progress" /\ trace_count > 0 /\ trace_count % 5 = 0
                 /\ progress' = Append(progress, trace_count)
           /\ (pc = "progress" /\ trace_count % 5 = 0) => progress' # progress
         ]_vars

FifthWorkflowNotified ==
    progress = <<5>> /\ trace_count = 5 /\ pc = "while"

----------------------------------------------------------------------------
(* Result attributes of the roots *)

\* C16: once the user_request root has ended, its http.status_code is 500 if
\* the external-API failure branch was taken and 200 if not; and if it was
\* not, the external_api_call child has http.status_code 200 and no error
\* attribute.
UserRequestStatusFollowsApi ==
    (wf = "user" /\ RootEnded) =>
        /\ Has(Root, "http.status_code")
        /\ Attr(Root, "http.status_code") = (IF took THEN 500 ELSE 200)
        /\ ~took =>
              LET api == Handle(spans, "external_api_call") IN
                 /\ Has(api, "http.status_code")
                 /\ Attr(api, "http.status_code") = 200
                 /\ ~Has(api, "error")

ApiSucceededAndRootEnded ==
    /\ wf = "user" /\ ~took /\ RootEnded
    /\ Attr(Root, "http.status_code") = 200

----------------------------------------------------------------------------
(* The budget and the workflow in flight *)

SpanNames == [i \in DOMAIN spans |-> spans[i].name]

\* The spans a call has begun when it returns, by its outcome.
SpansOfCall ==
    IF wf = "user"
    THEN <<"user_request", "authenticate_user", "database_query",
           "external_api_call", "process_response">>
    ELSE IF took
    THEN <<"order_process", "validate_order", "check_inventory", "process_payment">>
    ELSE <<"order_process", "validate_order", "check_inventory", "process_payment",
           "update_order_database", "send_notification">>

\* C17: whatever the elapsed time, a workflow in flight executes its next
\* statement (no statement is skipped; only its own return unwinds it), so it
\* returns with all the spans of its outcome begun and ended; the returned
\* call is counted and the jitter slept before the budget is looked at
\* again; and the loop stops only at the budget test.
BudgetNeverCancelsWorkflow ==
    /\ [](Returned => (SpanNames = SpansOfCall /\ \A i \in Ids : ~spans[i].open))
    /\ [][ /\ (pc = "run" /\ todo # <<>>) =>
                 /\ pc' = "run"
                 /\ LET st == todo[1] IN
                       CASE st.op = "if" ->
                               todo' \in {st.then \o Tail(todo), st.else \o Tail(todo)}
                         [] st.op = "return" ->
                               todo' = [k \in 1..Len(stack) |-> End]
                         [] OTHER -> todo' = Tail(todo)
           /\ Returned => (pc' = "jitter" /\ trace_count' = trace_count + 1)
           /\ pc = "jitter" => (pc' = "progress" /\ clock' >= clock + MinJitter)
           /\ pc = "progress" => pc' = "while"
           /\ (Stopped' /\ ~Stopped) => pc = "while"
         ]_vars

CountedAndPausedAfterOverrun ==
    /\ pc = "progress" /\ trace_count >= 2
    /\ Elapsed - idle >= Budget + MinWorkflow

----------------------------------------------------------------------------
(* The shape of the open spans *)

OpenSpans == {i \in Ids : spans[i].open}

\* C18: the open spans are exactly the spans of the scope stack, which holds
\* at most the root and one child of it; every span but the root is a child
\* of the root; and a child is begun only when every earlier child has ended
\* (no later than the new one starts), so children are in execution order.
OpenSpansFormStack ==
    /\ Len(stack) <= 2
    /\ OpenSpans = {stack[k] : k \in DOMAIN stack}
    /\ stack # <<>> => (stack[1] = Root /\ spans[Root].parent = 0)
    /\ Len(stack) = 2 => (stack[2] # Root /\ spans[stack[2]].parent = Root)
    /\ Cardinality(OpenSpans \ {Root}) <= 1
    /\ \A i \in Ids \ {Root} :
          /\ spans[i].parent = Root
          /\ spans[i].open => spans[Root].open
          /\ \A j \in Ids \ {Root} :
                i < j => (~spans[i].open /\ spans[i].end <= spans[j].start)

LaterSiblingOpen ==
    /\ Len(stack) = 2 /\ stack[2] >= 4
    /\ spans[stack[2]].start > spans[stack[2] - 1].start

----------------------------------------------------------------------------
(* Result attributes of the order_process root *)

\* The test of the payment outcome is still ahead.
OutcomeUndecided == \E k \in DOMAIN todo : todo[k].op = "if"

\* C19: in simulate_order_process the root has neither http.status_code nor
\* order.status while the payment outcome is undecided; its http.status_code
\* is never anything but 402 or 201; and once the root has ended the code is
\* 402 if the payment failed and 201 if not, and order.status is present,
\* with value "completed", exactly if the payment did not fail.
OrderRootResult ==
    (wf = "order" /\ pc = "run" /\ spans # <<>>) =>
        /\ OutcomeUndecided =>
              (~Has(Root, "http.status_code") /\ ~Has(Root, "order.status"))
        /\ Has(Root, "http.status_code") =>
              Attr(Root, "http.status_code") \in {402, 201}
        /\ Has(Root, "order.status") => Attr(Root, "order.status") = "completed"
        /\ RootEnded =>
              /\ Has(Root, "http.status_code")
              /\ Attr(Root, "http.status_code") = (IF took THEN 402 ELSE 201)
              /\ Has(Root, "order.status") <=> ~took

FailedOrderHasNoOrderStatus ==
    /\ wf = "order" /\ took /\ RootEnded
    /\ Attr(Root, "http.status_code") = 402
    /\ ~Has(Root, "order.status")

=============================================================================
